---- MODULE Spec2Model ----
(***************************************************************************)
(* Model of drip/models.py: QuerySetRule (clean, annotated_field_name,     *)
(* apply_any_annotation, parse_duration, filter_kwargs, apply), the        *)
(* queryable collection it drives and the ordered rule list of a Drip.     *)
(*                                                                         *)
(* Python strings are sequences of one-character strings, so that          *)
(* startswith / endswith / replace / rpartition / lstrip / join are        *)
(* computed character by character, as str computes them.                  *)
(* Instants are integer seconds; a duration is an integer number of        *)
(* seconds; a calendar date is an integer number of days.                  *)
(***************************************************************************)
EXTENDS Integers, Sequences, FiniteSets, TLC

(***************************************************************************)
(* str methods                                                             *)
(***************************************************************************)
startswith(s, p) ==
    /\ Len(p) <= Len(s)
    /\ SubSeq(s, 1, Len(p)) = p

endswith(s, p) ==
    /\ Len(p) <= Len(s)
    /\ SubSeq(s, Len(s) - Len(p) + 1, Len(s)) = p

\* str.replace(old, new): every non-overlapping occurrence, left to right.
RECURSIVE replace(_, _, _)
replace(s, old, new) ==
    IF Len(s) < Len(old) \/ Len(old) = 0 THEN s
    ELSE IF SubSeq(s, 1, Len(old)) = old
         THEN new \o replace(SubSeq(s, Len(old) + 1, Len(s)), old, new)
         ELSE <<Head(s)>> \o replace(Tail(s), old, new)

\* str.lstrip(ch): drop every leading ch.
RECURSIVE lstrip(_, _)
lstrip(s, ch) ==
    IF Len(s) > 0 /\ Head(s) = ch THEN lstrip(Tail(s), ch) ELSE s

\* str.rpartition(sep): split at the LAST occurrence of sep;
\* ('', '', s) when sep does not occur.
rpartition(s, sep) ==
    LET hits == {i \in 1..(Len(s) - Len(sep) + 1) :
                     SubSeq(s, i, i + Len(sep) - 1) = sep}
    IN  IF hits = {} THEN <<(<<>>), (<<>>), s>>
        ELSE LET i == CHOOSE k \in hits : \A j \in hits : j <= k
             IN  <<SubSeq(s, 1, i - 1), sep, SubSeq(s, i + Len(sep), Len(s))>>

\* sep.join([a, b])
join(sep, a, b) == a \o sep \o b

contains(s, ch) == \E i \in 1..Len(s) : s[i] = ch

(***************************************************************************)
(* String literals of the source                                           *)
(***************************************************************************)
COUNT_SUFFIX == <<"_", "_", "c", "o", "u", "n", "t">>
SEP          == <<"_", "_">>
UNDERSCORE   == <<"_">>
NUM_PREFIX   == <<"n", "u", "m", "_">>
NOW_PREFIX   == <<"n", "o", "w">>
TODAY_PREFIX == <<"t", "o", "d", "a", "y">>
F_PREFIX     == <<"F", "_">>
TRUE_LIT     == <<"T", "r", "u", "e">>
FALSE_LIT    == <<"F", "a", "l", "s", "e">>
COMMA_ZERO   == <<",", " ", "0">>

METHOD_TYPES == {"filter", "exclude"}

L_exact  == <<"e", "x", "a", "c", "t">>
L_gt     == <<"g", "t">>
L_gte    == <<"g", "t", "e">>
L_lt     == <<"l", "t">>
L_lte    == <<"l", "t", "e">>
L_isnull == <<"i", "s", "n", "u", "l", "l">>
L_bogus  == <<"b", "o", "g", "u", "s">>

\* The 14 choices of lookup_type.
LOOKUP_TYPES ==
    {L_exact,
     <<"i", "e", "x", "a", "c", "t">>,
     <<"c", "o", "n", "t", "a", "i", "n", "s">>,
     <<"i", "c", "o", "n", "t", "a", "i", "n", "s">>,
     <<"r", "e", "g", "e", "x">>,
     <<"i", "r", "e", "g", "e", "x">>,
     L_gt, L_gte, L_lt, L_lte,
     <<"s", "t", "a", "r", "t", "s", "w", "i", "t", "h">>,
     <<"i", "s", "t", "a", "r", "t", "s", "w", "i", "t", "h">>,
     <<"e", "n", "d", "s", "w", "i", "t", "h">>,
     <<"i", "e", "n", "d", "s", "w", "i", "t", "h">>}

(***************************************************************************)
(* django.utils.dateparse.parse_duration, on strings without ':', '.',     *)
(* a digit right after ',' or a trailing newline (no clock part, no         *)
(* fraction).  The three formats are tried in django's order:              *)
(*   standard:  [ DAYS ' ' [ 'day' ['s'] ', ' ] ] ['-'] DIGITS             *)
(*   iso8601:   ['-'|'+'] 'P' [ DIGITS 'D' ]                               *)
(*              [ 'T' [ DIGITS 'H' ] [ DIGITS 'M' ] [ DIGITS 'S' ] ]       *)
(*   postgres:  [ DAYS ' ' 'day' ['s'] [' '] ]                             *)
(* with DAYS = ['-'] DIGITS.  The result is a timedelta (a number of       *)
(* seconds), or Python's None when no format matches.                      *)
(***************************************************************************)
None == [is_none |-> TRUE, seconds |-> 0]

timedelta(n) == [is_none |-> FALSE, seconds |-> n]

Digits == {"0", "1", "2", "3", "4", "5", "6", "7", "8", "9"}

DigitValue(c) ==
    CASE c = "0" -> 0 [] c = "1" -> 1 [] c = "2" -> 2 [] c = "3" -> 3
      [] c = "4" -> 4 [] c = "5" -> 5 [] c = "6" -> 6 [] c = "7" -> 7
      [] c = "8" -> 8 [] c = "9" -> 9

IsDigits(s) == Len(s) > 0 /\ \A i \in 1..Len(s) : s[i] \in Digits

RECURSIVE ToNat(_)
ToNat(s) ==
    IF Len(s) = 0 THEN 0
    ELSE 10 * ToNat(SubSeq(s, 1, Len(s) - 1)) + DigitValue(s[Len(s)])

\* -?\d+
IsSignedDigits(s) ==
    IF Len(s) > 0 /\ Head(s) = "-" THEN IsDigits(Tail(s)) ELSE IsDigits(s)

ToInt(s) == IF Head(s) = "-" THEN 0 - ToNat(Tail(s)) ELSE ToNat(s)

\* The end of the leading run of -?\d+ characters (0 when there is none).
DaysEnd(s) ==
    LET ends == {i \in 1..Len(s) : IsSignedDigits(SubSeq(s, 1, i))}
    IN  IF ends = {} THEN 0 ELSE CHOOSE k \in ends : \A j \in ends : j <= k

DAY_WORD  == <<"d", "a", "y">>
DAYS_WORD == <<"d", "a", "y", "s">>

\* The text after 'day' or 'days' at the start of s, as a set (empty when
\* s starts with neither word).
AfterDayWord(s) ==
    {SubSeq(s, Len(w) + 1, Len(s)) : w \in {w \in {DAY_WORD, DAYS_WORD} : startswith(s, w)}}

\* standard_duration_re, seconds only: the set of values the match yields.
StandardDuration(s) ==
    LET k    == DaysEnd(s)
        rest == SubSeq(s, k + 2, Len(s))
        secs(t, days) ==
            IF IsSignedDigits(t) THEN {days * 86400 + ToInt(t)} ELSE {}
        withDays ==
            IF k > 0 /\ k < Len(s) /\ s[k + 1] = " "
            THEN LET d == ToInt(SubSeq(s, 1, k))
                 IN  UNION {IF startswith(t, <<",", " ">>)
                            THEN secs(SubSeq(t, 3, Len(t)), d) ELSE {}
                              : t \in AfterDayWord(rest)}
                     \cup secs(rest, d)
            ELSE {}
    IN  withDays \cup secs(s, 0)

\* postgres_interval_re, days only.
PostgresInterval(s) ==
    LET k    == DaysEnd(s)
        rest == SubSeq(s, k + 2, Len(s))
    IN  IF Len(s) = 0 THEN {0}
        ELSE IF k > 0 /\ k < Len(s) /\ s[k + 1] = " "
                 /\ \E t \in AfterDayWord(rest) : t \in {<<>>, <<" ">>}
             THEN {ToInt(SubSeq(s, 1, k)) * 86400}
             ELSE {}

\* The designators of iso8601_duration_re: the places in the pattern a
\* designator may follow and its length in seconds.
IsoUnits ==
    [D |-> [after |-> {"P"},           seconds |-> 86400],
     H |-> [after |-> {"T"},           seconds |-> 3600],
     M |-> [after |-> {"T", "H"},      seconds |-> 60],
     S |-> [after |-> {"T", "H", "M"}, seconds |-> 1]]

\* The match of iso8601_duration_re so far: the last piece of the pattern
\* matched ("start" before any, "fail" when the text cannot match), the
\* sign, the \d+ read since then and the seconds of the groups matched.
IsoStart == [at |-> "start", sign |-> 1, digits |-> <<>>, total |-> 0]

\* iso8601_duration_re consuming one more character c.
IsoStep(c, m) ==
    CASE c \in {"-", "+"} /\ m.at = "start"
           -> [m EXCEPT !.at = "sign", !.sign = IF c = "-" THEN 0 - 1 ELSE 1]
      [] c = "P" /\ m.at \in {"start", "sign"}
           -> [m EXCEPT !.at = "P"]
      [] c \in Digits /\ m.at \in {"P", "T", "H", "M"}
           -> [m EXCEPT !.digits = Append(@, c)]
      [] c = "T" /\ m.at \in {"P", "D"} /\ m.digits = <<>>
           -> [m EXCEPT !.at = "T"]
      [] c \in DOMAIN IsoUnits /\ m.digits # <<>> /\ m.at \in IsoUnits[c].after
           -> [m EXCEPT !.at = c, !.digits = <<>>,
                        !.total = @ + ToNat(m.digits) * IsoUnits[c].seconds]
      [] OTHER -> [m EXCEPT !.at = "fail"]

RECURSIVE IsoScan(_, _)
IsoScan(s, m) == IF s = <<>> THEN m ELSE IsoScan(Tail(s), IsoStep(Head(s), m))

\* iso8601_duration_re, whole numbers only: the set of values the match
\* yields.  The sign applies to the days and to the time part alike.
Iso8601Duration(s) ==
    {m.sign * m.total : m \in {m \in {IsoScan(s, IsoStart)} :
        m.at \in {"P", "D", "T", "H", "M", "S"} /\ m.digits = <<>>}}

django_parse_duration(s) ==
    LET std == StandardDuration(s)
        iso == Iso8601Duration(s)
        pg  == PostgresInterval(s)
    IN  IF std # {} THEN timedelta(CHOOSE d \in std : TRUE)
        ELSE IF iso # {} THEN timedelta(CHOOSE d \in iso : TRUE)
        ELSE IF pg # {} THEN timedelta(CHOOSE d \in pg : TRUE)
        ELSE None

(***************************************************************************)
(* Exceptions and typed values                                             *)
(***************************************************************************)
Error(type, text, arg) == [type |-> type, cause |-> "", text |-> text, arg |-> arg]

Raise(e)   == [raised |-> TRUE, error |-> e]

StrValue(s)      == [tag |-> "str", s |-> s]
BoolValue(b)     == [tag |-> "bool", b |-> b]
DateTimeValue(t) == [tag |-> "datetime", t |-> t]
DateValue(d)     == [tag |-> "date", d |-> d]
F(name)          == [tag |-> "F", name |-> name]

\* datetime.date(): the calendar day of an instant.
date(t) == t \div 86400

\* datetime + timedelta
DateTimePlus(t, d) == DateTimeValue(t + d.seconds)

\* date + timedelta: only the timedelta's (normalised) days count.
DatePlus(day, d) == DateValue(day + (d.seconds \div 86400))

(***************************************************************************)
(* The queryable collection (django QuerySet over the user model): a set   *)
(* of rows and the annotations it carries.  Columns id, age, referrer_id   *)
(* are integers, date_joined is an instant; orders and orders__items are   *)
(* multi-valued relations.  Lookups covered: exact, gt, gte, lt, lte,      *)
(* isnull.                                                                 *)
(***************************************************************************)
C_id          == <<"i", "d">>
C_age         == <<"a", "g", "e">>
C_referrer_id == <<"r", "e", "f", "e", "r", "r", "e", "r", "_", "i", "d">>
C_date_joined == <<"d", "a", "t", "e", "_", "j", "o", "i", "n", "e", "d">>
R_orders      == <<"o", "r", "d", "e", "r", "s">>
R_orders_items == R_orders \o SEP \o <<"i", "t", "e", "m", "s">>

IntColumns      == {C_id, C_age, C_referrer_id}
DateTimeColumns == {C_date_joined}
Columns         == IntColumns \cup DateTimeColumns
Relations       == {R_orders, R_orders_items}

StoreLookups == {L_exact, L_gt, L_gte, L_lt, L_lte, L_isnull}

ColumnValue(row, name) ==
    CASE name = C_id          -> row.id
      [] name = C_age         -> row.age
      [] name = C_referrer_id -> row.referrer_id
      [] name = C_date_joined -> row.date_joined

\* Count(agg, distinct=True) for one row.
CountDistinct(row, agg) ==
    CASE agg = R_orders       -> row.orders
      [] agg = R_orders_items -> row.orders_items
      [] agg \in Columns      -> 1

Aliases(qs) == {a[1] : a \in qs.annotations}

AggOf(qs, alias) == (CHOOSE a \in qs.annotations : a[1] = alias)[2]

\* The value of a column or of an annotation, for one row.
FieldValue(qs, row, name) ==
    IF name \in Aliases(qs) THEN CountDistinct(row, AggOf(qs, name))
    ELSE ColumnValue(row, name)

FieldType(qs, name) ==
    IF name \in Aliases(qs) \/ name \in IntColumns THEN "int" ELSE "datetime"

Known(qs, name) == name \in Aliases(qs) \/ name \in Columns

\* QuerySet.annotate(**{alias: Count(agg, distinct=True)})
QsAnnotate(qs, alias, agg) ==
    IF alias \in Columns
    THEN Raise(Error("ValueError", "The annotation conflicts with a field on the model", alias))
    ELSE IF agg \notin Relations \cup Columns
    THEN Raise(Error("FieldError", "Cannot resolve keyword into field", agg))
    ELSE [raised |-> FALSE,
          qs |-> [rows |-> qs.rows,
                  annotations |-> {a \in qs.annotations : a[1] # alias}
                                      \cup {<<alias, agg>>}]]

\* The failure, if any, of preparing the right-hand side for a field.
PrepError(qs, name, lookup, value) ==
    IF value.tag = "F"
    THEN IF Known(qs, value.name) THEN {}
         ELSE {Error("FieldError", "Cannot resolve keyword into field", value.name)}
    ELSE IF lookup = L_isnull THEN {}
    ELSE IF FieldType(qs, name) = "int"
    THEN CASE value.tag = "str" ->
                  IF IsSignedDigits(value.s) THEN {}
                  ELSE {Error("ValueError", "Field expected a number but got", value.s)}
           [] value.tag = "bool" -> {}
           [] OTHER -> {Error("TypeError", "Field expected a number but got", <<>>)}
    ELSE CASE value.tag \in {"datetime", "date"} -> {}
           [] value.tag = "str" ->
                  {Error("ValidationError", "value has an invalid format", value.s)}
           [] OTHER -> {Error("TypeError", "expected string or bytes-like object", <<>>)}

\* The right-hand side as the field's type, for one row.
Prepared(qs, row, name, value) ==
    CASE value.tag = "F"        -> FieldValue(qs, row, value.name)
      [] value.tag = "str"      -> ToInt(value.s)
      [] value.tag = "bool"     -> IF value.b THEN 1 ELSE 0
      [] value.tag = "datetime" -> value.t
      [] value.tag = "date"     -> value.d * 86400

\* Whether a row satisfies the predicate {name__lookup: value}.  No column
\* of the rows is NULL, so isnull matches every row for False and no row
\* for True or any other (truthy) value.
RowMatches(qs, row, name, lookup, value) ==
    IF lookup = L_isnull
    THEN value.tag = "bool" /\ value.b = FALSE
    ELSE LET lhs == FieldValue(qs, row, name)
             rhs == Prepared(qs, row, name, value)
         IN  CASE lookup = L_exact -> lhs = rhs
               [] lookup = L_gt    -> lhs > rhs
               [] lookup = L_gte   -> lhs >= rhs
               [] lookup = L_lt    -> lhs < rhs
               [] lookup = L_lte   -> lhs <= rhs

\* The failure, if any, of resolving the predicate {key: value} on qs.
ResolveError(qs, key, value) ==
    LET parts  == rpartition(key, SEP)
        name   == parts[1]
        lookup == parts[3]
    IN  IF ~Known(qs, name)
        THEN {Error("FieldError", "Cannot resolve keyword into field", name)}
        ELSE IF lookup \notin StoreLookups
        THEN {Error("FieldError", "Unsupported lookup for field", lookup)}
        ELSE PrepError(qs, name, lookup, value)

Satisfying(qs, key, value) ==
    LET parts == rpartition(key, SEP)
    IN  {row \in qs.rows : RowMatches(qs, row, parts[1], parts[3], value)}

\* QuerySet.filter(**{key: value})
QsFilter(qs, key, value) ==
    LET err == ResolveError(qs, key, value)
    IN  IF err # {} THEN Raise(CHOOSE e \in err : TRUE)
        ELSE [raised |-> FALSE,
              qs |-> [rows |-> Satisfying(qs, key, value),
                      annotations |-> qs.annotations]]

\* QuerySet.exclude(**{key: value})
QsExclude(qs, key, value) ==
    LET err == ResolveError(qs, key, value)
    IN  IF err # {} THEN Raise(CHOOSE e \in err : TRUE)
        ELSE [raised |-> FALSE,
              qs |-> [rows |-> qs.rows \ Satisfying(qs, key, value),
                      annotations |-> qs.annotations]]

(***************************************************************************)
(* QuerySetRule                                                            *)
(***************************************************************************)
annotated_field_name(rule) ==
    IF endswith(rule.field_name, COUNT_SUFFIX)
    THEN NUM_PREFIX \o replace(rpartition(rule.field_name, SEP)[1], SEP, UNDERSCORE)
    ELSE rule.field_name

\* The annotate request apply_any_annotation issues, as a set (empty when
\* the field carries no count marker).
AnnotationRequest(rule) ==
    IF endswith(rule.field_name, COUNT_SUFFIX)
    THEN {[op |-> "annotate",
           alias |-> annotated_field_name(rule),
           agg |-> rpartition(rule.field_name, SEP)[1],
           distinct |-> TRUE]}
    ELSE {}

\* Mutant: the annotated collection is dropped (qs is not rebound).
apply_any_annotation_dropped(rule, qs) == [raised |-> FALSE, qs |-> qs]

apply_any_annotation(rule, qs) ==
    IF AnnotationRequest(rule) = {} THEN [raised |-> FALSE, qs |-> qs]
    ELSE LET req == CHOOSE r \in AnnotationRequest(rule) : TRUE
         IN  QsAnnotate(qs, req.alias, req.agg)

\* [raised, error] or [raised, duration]; the duration may be None.
parse_duration(value) ==
    LET v        == lstrip(value, "+")
        duration == django_parse_duration(v)
    IN  IF duration.is_none
        THEN IF ~contains(v, ",")
             THEN LET retry == django_parse_duration(v \o COMMA_ZERO)
                  IN  IF retry.is_none
                      THEN Raise(Error("ValueError", "Could not parse", v))
                      ELSE [raised |-> FALSE, duration |-> retry]
             ELSE [raised |-> FALSE, duration |-> duration]
        ELSE [raised |-> FALSE, duration |-> duration]

\* Whether filter_kwargs calls now() (before it calls parse_duration).
ReadsClock(rule) ==
    startswith(rule.field_value, NOW_PREFIX) \/ startswith(rule.field_value, TODAY_PREFIX)

\* The argument filter_kwargs passes to parse_duration (when ReadsClock).
DurationText(rule) ==
    IF startswith(rule.field_value, NOW_PREFIX)
    THEN replace(rule.field_value, NOW_PREFIX, <<>>)
    ELSE replace(rule.field_value, TODAY_PREFIX, <<>>)

\* filter_kwargs, t being what now() returns: [raised, error] or
\* [raised, key, value].
filter_kwargs(rule, t) ==
    LET field_name == join(SEP, annotated_field_name(rule), rule.lookup_type)
        fv         == rule.field_value
        pd         == parse_duration(DurationText(rule))
        booleans(v) ==
            IF fv = TRUE_LIT THEN BoolValue(TRUE)
            ELSE IF fv = FALSE_LIT THEN BoolValue(FALSE)
            ELSE v
        fexpr(v) ==
            IF startswith(fv, F_PREFIX) THEN F(replace(fv, F_PREFIX, <<>>)) ELSE v
        kwargs(v) == [raised |-> FALSE, key |-> field_name, value |-> booleans(fexpr(v))]
    IN  IF ReadsClock(rule)
        THEN IF pd.raised THEN pd
             ELSE IF pd.duration.is_none
             THEN Raise(Error("TypeError", "unsupported operand type(s) for +", <<>>))
             ELSE IF startswith(fv, NOW_PREFIX)
             THEN kwargs(DateTimePlus(t, pd.duration))
             ELSE kwargs(DatePlus(date(t), pd.duration))
        ELSE kwargs(StrValue(fv))

\* Mutant: the two branches of apply are swapped.
DispatchOp_swapped(rule) ==
    IF rule.method_type = "filter" THEN "exclude"
    ELSE IF rule.method_type = "exclude" THEN "filter"
    ELSE "filter"

\* Mutant: the default of apply excludes.
DispatchOp_default_exclude(rule) ==
    IF rule.method_type = "filter" THEN "filter"
    ELSE IF rule.method_type = "exclude" THEN "exclude"
    ELSE "exclude"

\* The filter / exclude request apply issues for kwargs.
DispatchOp(rule) ==
    IF rule.method_type = "filter" THEN "filter"
    ELSE IF rule.method_type = "exclude" THEN "exclude"
    ELSE "filter"

Dispatch(rule, qs, kw) ==
    IF DispatchOp(rule) = "filter" THEN QsFilter(qs, kw.key, kw.value)
    ELSE QsExclude(qs, kw.key, kw.value)

\* apply(qs, now) as one function of the rule, the collection and the
\* instant now() returns.
apply(rule, qs, t) ==
    LET kw == filter_kwargs(rule, t)
    IN  IF kw.raised THEN kw
        ELSE LET ann == apply_any_annotation(rule, qs)
             IN  IF ann.raised THEN ann ELSE Dispatch(rule, ann.qs, kw)

\* clean's except clause: every Exception becomes a ValidationError whose
\* message holds the exception's type name and text.
clean_except(e) ==
    [type |-> "ValidationError", cause |-> e.type, text |-> e.text, arg |-> e.arg]

(***************************************************************************)
(* The ordered rule list of a Drip: each rule's apply receives the         *)
(* previous rule's output; the first failure ends the pass.                *)
(***************************************************************************)
\* Mutant: every rule is applied to the base collection; the last one wins.
RECURSIVE RuleSetApply_unthreaded(_, _, _)
RuleSetApply_unthreaded(rules, base, t) ==
    IF rules = <<>> THEN [raised |-> FALSE, qs |-> base]
    ELSE LET first == apply(Head(rules), base, t)
         IN  IF first.raised THEN first
             ELSE IF Tail(rules) = <<>> THEN first
             ELSE RuleSetApply_unthreaded(Tail(rules), base, t)

RECURSIVE RuleSetApply(_, _, _)
RuleSetApply(rules, base, t) ==
    IF rules = <<>> THEN [raised |-> FALSE, qs |-> base]
    ELSE LET first == apply(Head(rules), base, t)
         IN  IF first.raised THEN first
             ELSE RuleSetApply(Tail(rules), first.qs, t)

(***************************************************************************)
(* Inputs                                                                  *)
(***************************************************************************)
MaxTicks == 1
MaxRules == 3

SuppliedInstant == 10 * 86400 + 3600

\* What timezone.now() returns after the given number of clock ticks.
AmbientInstant(ticks) == 20 * 86400 + 7200 + ticks * 86400

Users ==
    {[id |-> 1, age |-> 15, referrer_id |-> 1, date_joined |-> 7 * 86400,
      orders |-> 0, orders_items |-> 0],
     [id |-> 2, age |-> 18, referrer_id |-> 1, date_joined |-> 9 * 86400 + 3600,
      orders |-> 2, orders_items |-> 3],
     [id |-> 3, age |-> 21, referrer_id |-> 3, date_joined |-> 19 * 86400 + 7200,
      orders |-> 1, orders_items |-> 0]}

\* User.objects.all()
AllUsers == [rows |-> Users, annotations |-> {}]

N_orders_count       == R_orders \o COUNT_SUFFIX
N_orders_items_count == R_orders_items \o COUNT_SUFFIX
N_bogus              == <<"b", "o", "g", "u", "s">>
N_num_orders         == NUM_PREFIX \o R_orders

\* A collection an earlier apply of an orders__count rule returned.
AnnotatedUsers ==
    [rows |-> {u \in Users : u.orders > 0},
     annotations |-> {<<N_num_orders, R_orders>>}]

Collections == {AllUsers, AnnotatedUsers}

MethodInputs == {"filter", "exclude", "other"}

FieldNameInputs ==
    {C_age, C_date_joined, N_orders_count, N_orders_items_count, N_bogus}

LookupInputs == {L_exact, L_gte, L_isnull, L_bogus}

V_18          == <<"1", "8">>
V_0           == <<"0">>
V_abc         == <<"a", "b", "c">>
V_minus_1_day == <<"-", "1", " ", "d", "a", "y">>

FieldValueInputs ==
    {V_18, V_0, V_abc, TRUE_LIT, FALSE_LIT,
     NOW_PREFIX,
     NOW_PREFIX \o V_minus_1_day,
     TODAY_PREFIX \o <<"+", "3", " ", "d", "a", "y", "s">>,
     NOW_PREFIX \o V_minus_1_day \o <<",", " ", "x">>,
     NOW_PREFIX \o <<"-", "x">>,
     NOW_PREFIX \o <<"-", "P", "1", "D", "T", "2", "H">>,
     F_PREFIX \o C_referrer_id,
     F_PREFIX \o F_PREFIX \o C_id}

Rule(id, m, f, l, v) ==
    [id |-> id, method_type |-> m, field_name |-> f, lookup_type |-> l,
     field_value |-> v]

RuleInputs ==
    {Rule(1, m, f, l, v) : m \in MethodInputs, f \in FieldNameInputs,
                           l \in LookupInputs, v \in FieldValueInputs}

\* The rules a Drip's list is drawn from.
RuleSetInputs ==
    {Rule(1, "filter", C_age, L_gte, V_18),
     Rule(2, "exclude", N_orders_count, L_exact, V_0),
     Rule(3, "filter", C_date_joined, L_gte, NOW_PREFIX \o V_minus_1_day),
     Rule(4, "filter", C_age, L_bogus, V_18)}

RECURSIVE SeqsUpTo(_, _)
SeqsUpTo(S, n) ==
    IF n = 0 THEN {<<>>}
    ELSE LET shorter == SeqsUpTo(S, n - 1)
         IN  shorter \cup {Append(q, x) : q \in shorter, x \in S}

NowInputs == {[ambient |-> TRUE, t |-> 0], [ambient |-> FALSE, t |-> SuppliedInstant]}

NoRule   == Rule(0, "", <<>>, <<>>, <<>>)
NoQs     == [rows |-> {}, annotations |-> {}]
NoError  == Error("", "", <<>>)
NoKwargs == [raised |-> FALSE, key |-> <<>>, value |-> StrValue(<<>>)]
NotParsed == [called |-> FALSE, raised |-> FALSE, is_none |-> FALSE]

(***************************************************************************)
(* State                                                                   *)
(***************************************************************************)
VARIABLES
    pc,        \* idle, filter_kwargs, apply_any_annotation, dispatch,
               \* returned, raised, done
    caller,    \* none, apply, clean, ruleset
    rule,      \* self
    now,       \* the now argument: the default timezone.now or a supplied clock
    clock,     \* ticks of the ambient clock
    qs_in,     \* the collection apply was called with
    qs,        \* the local qs of apply
    kwargs,    \* the local kwargs of apply
    parsed,    \* what the call of parse_duration gave, if it was called
    log,       \* the requests of this rule evaluation, in order
    error,     \* the exception in flight
    result,    \* what the caller gets
    todo,      \* rule list: the rules still to apply
    applied,   \* rule list: the rules applied before the current one
    base       \* rule list: the base collection

vars == <<pc, caller, rule, now, clock, qs_in, qs, kwargs, parsed, log, error,
          result, todo, applied, base>>

NoResult == [kind |-> "none", qs |-> NoQs, error |-> NoError]

Init ==
    /\ pc = "idle"
    /\ caller = "none"
    /\ rule = NoRule
    /\ now = [ambient |-> TRUE, t |-> 0]
    /\ clock = 0
    /\ qs_in = NoQs
    /\ qs = NoQs
    /\ kwargs = NoKwargs
    /\ parsed = NotParsed
    /\ log = <<>>
    /\ error = NoError
    /\ result = NoResult
    /\ todo = <<>>
    /\ applied = <<>>
    /\ base = NoQs

\* The ambient clock advances on its own.
Tick ==
    /\ clock < MaxTicks
    /\ clock' = clock + 1
    /\ UNCHANGED <<pc, caller, rule, now, qs_in, qs, kwargs, parsed, log, error,
                   result, todo, applied, base>>

\* A caller invokes rule.apply(qs) or rule.apply(qs, now).
CallApply ==
    /\ pc = "idle"
    /\ \E r \in RuleInputs, q \in Collections, n \in NowInputs :
          /\ rule' = r
          /\ qs_in' = q
          /\ qs' = q
          /\ now' = n
    /\ caller' = "apply"
    /\ pc' = "filter_kwargs"
    /\ UNCHANGED <<clock, kwargs, parsed, log, error, result, todo, applied, base>>

\* rule.clean(): get_user_model() is called before the try; when it raises
\* (ImproperlyConfigured, for an AUTH_USER_MODEL that is malformed or not
\* installed) the exception leaves clean as it is.  Inside the try the user
\* model's manager is asked for all users and apply is called with no now
\* argument; a user model without an 'objects' manager raises
\* AttributeError there.
CallClean ==
    /\ pc = "idle"
    /\ caller' = "clean"
    /\ now' = [ambient |-> TRUE, t |-> 0]
    /\ \E r \in RuleInputs,
          user_model \in {"configured", "no_objects_manager", "not_installed"} :
          /\ rule' = r
          /\ IF user_model = "configured"
             THEN /\ qs_in' = AllUsers
                  /\ qs' = AllUsers
                  /\ pc' = "filter_kwargs"
                  /\ UNCHANGED <<error, result>>
             ELSE IF user_model = "no_objects_manager"
             THEN /\ pc' = "raised"
                  /\ error' = Error("AttributeError",
                                    "type object has no attribute", <<>>)
                  /\ UNCHANGED <<qs_in, qs, result>>
             ELSE /\ pc' = "done"
                  /\ result' = [kind |-> "raise", qs |-> NoQs,
                                error |-> Error("ImproperlyConfigured",
                                                "AUTH_USER_MODEL refers to model that has not been installed",
                                                <<>>)]
                  /\ UNCHANGED <<qs_in, qs, error>>
    /\ UNCHANGED <<clock, kwargs, parsed, log, todo, applied, base>>

\* kwargs = self.filter_kwargs(qs, now)
FilterKwargs ==
    /\ pc = "filter_kwargs"
    /\ LET t  == IF now.ambient THEN AmbientInstant(clock) ELSE now.t
           kw == filter_kwargs(rule, t)
           pd == parse_duration(DurationText(rule))
       IN  /\ log' = IF ReadsClock(rule)
                     THEN Append(log, [op |-> "now",
                                       clock |-> IF now.ambient THEN "ambient"
                                                 ELSE "supplied"])
                     ELSE log
           /\ parsed' = IF ReadsClock(rule)
                        THEN [called |-> TRUE, raised |-> pd.raised,
                              is_none |-> IF pd.raised THEN FALSE
                                          ELSE pd.duration.is_none]
                        ELSE NotParsed
           /\ IF kw.raised
              THEN /\ pc' = "raised"
                   /\ error' = kw.error
                   /\ kwargs' = kwargs
              ELSE /\ pc' = "apply_any_annotation"
                   /\ kwargs' = kw
                   /\ error' = error
    /\ UNCHANGED <<caller, rule, now, clock, qs_in, qs, result, todo, applied, base>>

\* qs = self.apply_any_annotation(qs)
ApplyAnyAnnotation ==
    /\ pc = "apply_any_annotation"
    /\ LET ann == apply_any_annotation(rule, qs)
       IN  /\ log' = IF AnnotationRequest(rule) = {} THEN log
                     ELSE Append(log, CHOOSE r \in AnnotationRequest(rule) : TRUE)
           /\ IF ann.raised
              THEN /\ pc' = "raised"
                   /\ error' = ann.error
                   /\ qs' = qs
              ELSE /\ pc' = "dispatch"
                   /\ qs' = ann.qs
                   /\ error' = error
    /\ UNCHANGED <<caller, rule, now, clock, qs_in, kwargs, parsed, result, todo,
                   applied, base>>

\* return qs.filter(**kwargs) / qs.exclude(**kwargs) / the default filter
FilterOrExclude ==
    /\ pc = "dispatch"
    /\ LET out == Dispatch(rule, qs, kwargs)
       IN  /\ log' = Append(log, [op |-> DispatchOp(rule), key |-> kwargs.key,
                                  value |-> kwargs.value, carried |-> Aliases(qs)])
           /\ IF out.raised
              THEN /\ pc' = "raised"
                   /\ error' = out.error
                   /\ qs' = qs
              ELSE /\ pc' = "returned"
                   /\ qs' = out.qs
                   /\ error' = error
    /\ UNCHANGED <<caller, rule, now, clock, qs_in, kwargs, parsed, result, todo,
                   applied, base>>

\* apply returns to, or raises into, the caller that invoked it directly.
ApplyReturn ==
    /\ pc = "returned"
    /\ caller = "apply"
    /\ pc' = "done"
    /\ result' = [kind |-> "ok", qs |-> qs, error |-> NoError]
    /\ UNCHANGED <<caller, rule, now, clock, qs_in, qs, kwargs, parsed, log, error,
                   todo, applied, base>>

ApplyRaise ==
    /\ pc = "raised"
    /\ caller = "apply"
    /\ pc' = "done"
    /\ result' = [kind |-> "raise", qs |-> NoQs, error |-> error]
    /\ UNCHANGED <<caller, rule, now, clock, qs_in, qs, kwargs, parsed, log, error,
                   todo, applied, base>>

\* clean: the try block ends without an exception; clean returns None.
CleanReturn ==
    /\ pc = "returned"
    /\ caller = "clean"
    /\ pc' = "done"
    /\ result' = [kind |-> "ok", qs |-> NoQs, error |-> NoError]
    /\ UNCHANGED <<caller, rule, now, clock, qs_in, qs, kwargs, parsed, log, error,
                   todo, applied, base>>

\* clean: except Exception as e: raise ValidationError(...)
CleanExcept ==
    /\ pc = "raised"
    /\ caller = "clean"
    /\ pc' = "done"
    /\ result' = [kind |-> "raise", qs |-> NoQs, error |-> clean_except(error)]
    /\ UNCHANGED <<caller, rule, now, clock, qs_in, qs, kwargs, parsed, log, error,
                   todo, applied, base>>

\* The rule list is applied to a base collection.
CallRuleSet ==
    /\ pc = "idle"
    /\ caller' = "ruleset"
    /\ base' = AllUsers
    /\ applied' = <<>>
    /\ \E rules \in SeqsUpTo(RuleSetInputs, MaxRules), n \in NowInputs :
          /\ now' = n
          /\ IF rules = <<>>
             THEN /\ pc' = "done"
                  /\ result' = [kind |-> "ok", qs |-> AllUsers, error |-> NoError]
                  /\ UNCHANGED <<rule, qs_in, qs, todo>>
             ELSE /\ pc' = "filter_kwargs"
                  /\ rule' = Head(rules)
                  /\ todo' = Tail(rules)
                  /\ qs_in' = AllUsers
                  /\ qs' = AllUsers
                  /\ result' = result
    /\ UNCHANGED <<clock, kwargs, parsed, log, error>>

\* The output of one rule is the input of the next.
RuleSetNext ==
    /\ pc = "returned"
    /\ caller = "ruleset"
    /\ todo # <<>>
    /\ applied' = Append(applied, rule)
    /\ rule' = Head(todo)
    /\ todo' = Tail(todo)
    /\ qs_in' = qs
    /\ log' = <<>>
    /\ parsed' = NotParsed
    /\ kwargs' = NoKwargs
    /\ pc' = "filter_kwargs"
    /\ UNCHANGED <<caller, now, clock, qs, error, result, base>>

RuleSetReturn ==
    /\ pc = "returned"
    /\ caller = "ruleset"
    /\ todo = <<>>
    /\ pc' = "done"
    /\ result' = [kind |-> "ok", qs |-> qs, error |-> NoError]
    /\ UNCHANGED <<caller, rule, now, clock, qs_in, qs, kwargs, parsed, log, error,
                   todo, applied, base>>

RuleSetRaise ==
    /\ pc = "raised"
    /\ caller = "ruleset"
    /\ pc' = "done"
    /\ result' = [kind |-> "raise", qs |-> NoQs, error |-> error]
    /\ UNCHANGED <<caller, rule, now, clock, qs_in, qs, kwargs, parsed, log, error,
                   todo, applied, base>>

Next ==
    \/ Tick
    \/ CallApply
    \/ CallClean
    \/ CallRuleSet
    \/ FilterKwargs
    \/ ApplyAnyAnnotation
    \/ FilterOrExclude
    \/ ApplyReturn
    \/ ApplyRaise
    \/ CleanReturn
    \/ CleanExcept
    \/ RuleSetNext
    \/ RuleSetReturn
    \/ RuleSetRaise

Spec == Init /\ [][Next]_vars

(***************************************************************************)
(* Properties                                                              *)
(***************************************************************************)
\* apply was entered for the current rule.
ApplyCalled ==
    \/ caller \in {"apply", "ruleset"} /\ rule # NoRule
    \/ caller = "clean" /\ qs_in # NoQs

\* apply has come to its end for the current rule, by return or by raise.
ApplyFinished == ApplyCalled /\ pc \in {"returned", "raised"}

\* filter_kwargs returned a predicate (value parsing did not fail).
KwargsBuilt == kwargs.key # <<>>

\* The instants now() can have returned in this evaluation.
InstantsRead ==
    IF now.ambient THEN {AmbientInstant(c) : c \in 0..clock} ELSE {now.t}

\* What apply gave for the current rule, in the shape of the apply operator.
Outcome ==
    IF pc = "returned" THEN [raised |-> FALSE, qs |-> qs]
    ELSE [raised |-> TRUE, error |-> error]

LogIndexes(ops) == {i \in 1..Len(log) : log[i].op \in ops}

\* Everything of the field name before the final '__count'.
RelationPath(field_name) ==
    SubSeq(field_name, 1, Len(field_name) - Len(COUNT_SUFFIX))

\* C1: with method 'filter' apply returns exactly the rows of the input
\* collection that satisfy the compiled predicate, with 'exclude' exactly
\* the rows that do not; for the same rule fields and the same instant the
\* two results are disjoint and together make up the input collection.
C1_IncludeExcludePartition ==
    (ApplyCalled /\ pc = "returned" /\ rule.method_type \in METHOD_TYPES) =>
        LET carried == [rows |-> qs_in.rows, annotations |-> qs.annotations]
            sat     == {row \in qs_in.rows :
                           RowMatches(carried, row,
                                      rpartition(kwargs.key, SEP)[1],
                                      rpartition(kwargs.key, SEP)[3],
                                      kwargs.value)}
            other   == IF rule.method_type = "filter" THEN "exclude" ELSE "filter"
        IN  /\ rule.method_type = "filter" => qs.rows = sat
            /\ rule.method_type = "exclude" => qs.rows = qs_in.rows \ sat
            /\ ~now.ambient =>
                   LET o == apply([rule EXCEPT !.method_type = other], qs_in, now.t)
                   IN  /\ ~o.raised
                       /\ o.qs.rows \cap qs.rows = {}
                       /\ o.qs.rows \cup qs.rows = qs_in.rows

\* age gte 18, method exclude, over ages 15, 18, 21 has returned ages {15}.
C1_Witness ==
    /\ caller = "apply"
    /\ pc = "returned"
    /\ rule.method_type = "exclude"
    /\ rule.field_name = C_age
    /\ rule.lookup_type = L_gte
    /\ rule.field_value = V_18
    /\ qs_in = AllUsers
    /\ {u.age : u \in qs.rows} = {15}

\* C2: whatever fails during clean, the only error clean lets its caller
\* see is the structured ValidationError that wraps the cause; no raw
\* exception escapes.
C2_CleanRaisesOnlyValidationError ==
    (caller = "clean" /\ pc = "done") =>
        \/ result.kind = "ok"
        \/ /\ result.kind = "raise"
           /\ result.error.type = "ValidationError"
           /\ result.error.cause # ""

\* C3: parse_duration returns a duration or raises; it never returns None.
C3_ParseDurationNeverReturnsNone ==
    (parsed.called /\ ~parsed.raised) => ~parsed.is_none

\* C4: when the lookup of an otherwise well-formed rule is not one of the
\* 14 recognized operators, clean ends in a failure that references the
\* rule's id and carries the cause.
C4_UnknownLookupFailureNamesRule ==
    (caller = "clean" /\ pc = "done" /\ KwargsBuilt
        /\ rule.lookup_type \notin LOOKUP_TYPES) =>
        /\ result.kind = "raise"
        /\ result.error.type = "ValidationError"
        /\ result.error.cause # ""
        /\ "rule_id" \in DOMAIN result.error
        /\ result.error.rule_id = rule.id

\* The annotation requests and the predicate key of a finished apply, n
\* being the number of requests a field with the count marker calls for:
\* n distinct counts over the relation path, under the alias the key is
\* built from; without the marker no request, and the key is built from
\* the field name unchanged.
AnnotationMatchesField(n) ==
    IF endswith(rule.field_name, COUNT_SUFFIX)
    THEN /\ Cardinality(LogIndexes({"annotate"})) = n
         /\ \A i \in LogIndexes({"annotate"}) :
               /\ log[i].agg = RelationPath(rule.field_name)
               /\ log[i].distinct
               /\ kwargs.key = log[i].alias \o SEP \o rule.lookup_type
    ELSE /\ LogIndexes({"annotate"}) = {}
         /\ KwargsBuilt => kwargs.key = rule.field_name \o SEP \o rule.lookup_type

\* C5: every finished apply of a field with the count marker has issued
\* exactly one annotation request, a distinct count over the relation path
\* under the alias the predicate key is built from; without the marker no
\* request is issued and the key is built from the field name unchanged.
C5_Original_OneAnnotationPerApply ==
    ApplyFinished => AnnotationMatchesField(1)

\* C6: a raw value that begins with 'F_' compiles to a field reference
\* whose name is exactly the rest of the raw value after that prefix.
C6_FieldReferenceIsRemainder ==
    (KwargsBuilt /\ startswith(rule.field_value, F_PREFIX)) =>
        /\ kwargs.value.tag = "F"
        /\ kwargs.value.name =
               SubSeq(rule.field_value, Len(F_PREFIX) + 1, Len(rule.field_value))

\* C7: neither apply with a supplied now nor clean reads the ambient
\* clock, and the clock is read at most once per rule evaluation.
C7_NoAmbientClockRead ==
    (caller = "clean" \/ (ApplyCalled /\ ~now.ambient)) =>
        /\ \A i \in LogIndexes({"now"}) : log[i].clock = "supplied"
        /\ Cardinality(LogIndexes({"now"})) <= 1

\* C8: a rule whose method is neither 'filter' nor 'exclude' gets from
\* apply what the same rule with method 'filter' gets.
C8_UnknownMethodIsInclude ==
    (ApplyFinished /\ rule.method_type \notin METHOD_TYPES) =>
        \E t \in InstantsRead :
            Outcome = apply([rule EXCEPT !.method_type = "filter"], qs_in, t)

\* A rule with method 'other' has narrowed the collection.
C8_Witness ==
    /\ ApplyFinished
    /\ pc = "returned"
    /\ rule.method_type = "other"
    /\ qs.rows # qs_in.rows
    /\ qs.rows # {}

\* C9: with a fixed instant, when the rules applied so far have returned,
\* the collection is what one pass over them gives from the base, and one
\* pass over the remaining rules from it equals one pass over the whole
\* list from the base; the empty list returns the base collection.
C9_RuleListComposes ==
    /\ (caller = "ruleset" /\ pc = "returned" /\ ~now.ambient) =>
           LET prefix == Append(applied, rule)
           IN  /\ RuleSetApply(prefix, base, now.t) = [raised |-> FALSE, qs |-> qs]
               /\ RuleSetApply(todo, qs, now.t)
                      = RuleSetApply(prefix \o todo, base, now.t)
    /\ (caller = "ruleset" /\ pc = "done" /\ rule = NoRule) =>
           /\ result.kind = "ok"
           /\ result.qs = base
           /\ RuleSetApply(<<>>, base, now.t) = [raised |-> FALSE, qs |-> base]

\* Two rules have been applied and narrowed the base; a third is to come.
C9_Witness ==
    /\ caller = "ruleset"
    /\ pc = "returned"
    /\ ~now.ambient
    /\ Len(applied) = 1
    /\ Len(todo) = 1
    /\ qs.rows # base.rows
    /\ qs.rows # {}

\* C10: a filter or exclude on a count alias is only issued on a
\* collection that carries the annotation for that alias, after the
\* annotate request; when value parsing fails no annotate, filter or
\* exclude is issued.
C10_AnnotateBeforeFilter ==
    /\ \A i \in LogIndexes({"filter", "exclude"}) :
           endswith(rule.field_name, COUNT_SUFFIX) =>
               LET alias == rpartition(log[i].key, SEP)[1]
               IN  /\ alias \in log[i].carried
                   /\ \E j \in LogIndexes({"annotate"}) :
                         j < i /\ log[j].alias = alias
    /\ \A i \in LogIndexes({"annotate"}) :
           \A j \in LogIndexes({"filter", "exclude"}) : i < j
    /\ (ApplyCalled /\ pc = "raised" /\ ~KwargsBuilt) =>
           LogIndexes({"annotate", "filter", "exclude"}) = {}

\* An exclude on num_orders has been issued after its annotate request.
C10_Witness ==
    /\ Len(log) = 2
    /\ log[1].op = "annotate"
    /\ log[2].op = "exclude"
    /\ log[1].alias = N_num_orders
    /\ N_num_orders \in log[2].carried
    /\ qs_in = AllUsers
====
